---- MODULE Spec2Model ----
(***************************************************************************)
(* A model of src/automation_service.py: the AutomationService supervisor  *)
(* (start / stop / signal handler), its process launcher, the provider     *)
(* stop it calls, the environment prober and provisioner, and the          *)
(* bootstrap orchestrator call_bootstrap_endpoint.                         *)
(*                                                                         *)
(* Five specifications share the module:                                   *)
(*   Spec           the supervisor object driven by a client that calls    *)
(*                  start() and stop() in any order, with a shutdown       *)
(*                  signal that may arrive between any two steps;          *)
(*   SpecBootstrap  one caller running call_bootstrap_endpoint against an  *)
(*                  HTTP server whose answers are drawn from small sets;   *)
(*   SpecMain       main(): the handlers installed, one start(), the wait  *)
(*                  loop and the stop() of its finally block;              *)
(*   SpecProvider   a caller of the provider controller (start, stop,      *)
(*                  is-running) against a daemon that may come and go;     *)
(*   SpecProbe      check_virtual_environment applied to every             *)
(*                  environment, and the provisioner changing it.          *)
(* Logging (self.log) is modelled as an append to a sequence and is taken  *)
(* not to fail.                                                            *)
(***************************************************************************)
EXTENDS Integers, Sequences, FiniteSets, TLC

VARIABLES
    \* ---- call_bootstrap_endpoint ----
    bpc,          \* position of the caller: "idle", "poll", "post", "verify", "done"
    retry_count,  \* the local retry_count of the readiness loop
    gets,         \* readiness GETs issued by the current call
    posts,        \* bootstrap POSTs issued by the current call
    verifies,     \* verification GETs issued by the current call
    readyAt,      \* number of the readiness GET that first answered 200 (0: none)
    lastGet,      \* outcome of the last readiness GET
    postResp,     \* outcome of the bootstrap POST
    verifyResp,   \* outcome of the verification GET
    bresult,      \* the dictionary call_bootstrap_endpoint returned; until the
                  \* return its result field holds the local "result"
    blog,         \* the lines the current call logged
    \* ---- supervisor ----
    env,          \* the file system / deployment mode the prober looks at
    is_running,   \* self.is_running
    api_process,  \* self.api_process: None or the id of a spawned child
    children,     \* child id -> "alive" | "terminated" | "killed"
    threads,      \* server threads started (bundled mode)
    mpc,          \* position of the control thread
    trace,        \* operations invoked by the last start() call, in order
    startRet,     \* what the last start() returned: "none", "true", "false"
    stopInfo,     \* what the stop() run since the last start() began did
    proc,         \* "running"; "exiting0": SystemExit(0) is unwinding main();
                  \* or the exit of the process: "exit0", "exit1"
    \* ---- provider controller and prober ----
    golem,        \* the provider daemon as the control commands see it
    phist,        \* the provider operations called so far, with what they did
    probeRes      \* what the last check_virtual_environment() returned

bvars == <<bpc, retry_count, gets, posts, verifies, readyAt, lastGet,
           postResp, verifyResp, bresult, blog>>
svars == <<env, is_running, api_process, children, threads, mpc, trace,
           startRet, stopInfo, proc>>
pvars == <<golem, phist, probeRes>>
vars == <<bpc, retry_count, gets, posts, verifies, readyAt, lastGet,
          postResp, verifyResp, bresult, blog,
          env, is_running, api_process, children, threads, mpc, trace,
          startRet, stopInfo, proc, golem, phist, probeRes>>

(***************************************************************************)
(* Bounds of the model.                                                    *)
(***************************************************************************)
\* longest bootstrap_steps list in a bootstrap response
MaxSteps == 2
\* launches (children spawned plus server threads started) per run
MaxSpawn == 2
\* provider operations called in one run
MaxOps == 3

(***************************************************************************)
(* Bootstrap orchestrator: call_bootstrap_endpoint                         *)
(***************************************************************************)
\* max_retries = 30
max_retries == 30

\* what requests.get(".../docs", timeout=5) can do: answer 200, answer
\* another status, or raise a RequestException (timeout, connection error)
GetOutcomes == {"200", "non200", "timeout", "connerr"}

\* the status of one bootstrap_steps entry; "absent" is an entry without
\* a "status" key
StepStatuses == {"success", "failure", "absent"}

StepSeqs == UNION {[1..n -> StepStatuses] : n \in 0..MaxSteps}

\* Response bodies.  "object" is a JSON object with a bootstrap_steps list,
\* "json_other" is valid JSON of any other shape, "not_json" is text that
\* is not JSON.  The record as a whole stands for the raw text.
Bodies ==
    {[kind |-> "object", steps |-> s] : s \in StepSeqs}
        \cup {[kind |-> "json_other", steps |-> <<>>],
              [kind |-> "not_json", steps |-> <<>>]}

NoBody == [kind |-> "none", steps |-> <<>>]

StatusCodes == {200, 404, 500}

\* what requests.post(".../bootstrap", timeout=600) can do
PostOutcomes ==
    {[kind |-> "http", code |-> c, body |-> b] : c \in StatusCodes, b \in Bodies}
        \cup {[kind |-> "timeout", code |-> 0, body |-> NoBody],
              [kind |-> "connerr", code |-> 0, body |-> NoBody]}

NoResp == [kind |-> "none", code |-> 0, body |-> NoBody]

\* what requests.get(".../verify-installation", timeout=30) and the reading
\* of its body can do
VerifyOutcomes == {"all_go", "not_all_go", "non200", "timeout", "connerr", "malformed"}

\* response.json(): the parsed value, or the failure to parse
Json(body) ==
    CASE body.kind = "object" ->
             [ok |-> TRUE, isDict |-> TRUE, bootstrap_steps |-> body.steps]
      [] body.kind = "json_other" ->
             [ok |-> TRUE, isDict |-> FALSE, bootstrap_steps |-> <<>>]
      [] OTHER ->
             [ok |-> FALSE, isDict |-> FALSE, bootstrap_steps |-> <<>>]

NoJson == [ok |-> FALSE, isDict |-> FALSE, bootstrap_steps |-> <<>>]

\* step.get("status", "unknown")
StepStatus(step) == IF step = "absent" THEN "unknown" ELSE step

LogLine(level, msg, n) == [level |-> level, msg |-> msg, step |-> n]

\* the for loop over bootstrap_steps: one line per entry, in order
\* (variant: the loop is left at the first entry that did not succeed)
RECURSIVE StepLinesStopAtFailure(_, _)
StepLinesStopAtFailure(steps, i) ==
    IF i > Len(steps) THEN <<>>
    ELSE IF StepStatus(steps[i]) = "success"
    THEN <<LogLine("INFO", "step ok", i)>> \o StepLinesStopAtFailure(steps, i + 1)
    ELSE <<LogLine("ERROR", "step failed", i)>>
RECURSIVE StepLines(_, _)
StepLines(steps, i) ==
    IF i > Len(steps) THEN <<>>
    ELSE <<IF StepStatus(steps[i]) = "success"
             THEN LogLine("INFO", "step ok", i)
             ELSE LogLine("ERROR", "step failed", i)>>
         \o StepLines(steps, i + 1)

\* the lines logged for a parsed 200 response, up to the verification
SuccessLines(result) ==
    <<LogLine("INFO", "Bootstrap completed successfully!", 0),
      LogLine("INFO", "Bootstrap Summary:", 0),
      LogLine("INFO", "Steps completed", 0),
      LogLine("INFO", "Completion time", 0)>>
    \o StepLines(result.bootstrap_steps, 1)
    \o <<LogLine("INFO", "Verifying installation...", 0)>>

\* the line the verification block logs for each outcome
VerifyLine(v) ==
    CASE v = "all_go" -> LogLine("INFO", "verification successful", 0)
      [] v = "not_all_go" -> LogLine("WARNING", "verification shows some issues", 0)
      [] v = "non200" -> LogLine("WARNING", "Could not verify installation", 0)
      [] OTHER -> LogLine("WARNING", "Installation verification failed", 0)

\* the dictionaries call_bootstrap_endpoint returns
Ret(status, message, code, response, result) ==
    [status |-> status, message |-> message, code |-> code,
     response |-> response, result |-> result]

NoRet == Ret("none", "", 0, NoBody, NoJson)

NotReadyRet == Ret("error", "API server did not become ready in time", 0, NoBody, NoJson)

\* while retry_count < max_retries
\* (variant: the comparison written <=, one attempt too many)
LoopContinuesOneMore(rc) == rc <= max_retries
LoopContinues(rc) == rc < max_retries

\* one pass of the loop body after the GET came back: a 200 breaks out
\* before the counter is touched, anything else counts a failed attempt
\* (variant: the attempt is counted before the status is looked at)
AfterGetCountFirst(rc, outcome) ==
    [rc |-> rc + 1, brk |-> outcome = "200"]
AfterGet(rc, outcome) ==
    IF outcome = "200" THEN [rc |-> rc, brk |-> TRUE]
    ELSE [rc |-> rc + 1, brk |-> FALSE]

\* if retry_count >= max_retries, after the loop
NotReady(rc) == rc >= max_retries

\* the "Waiting for API server" line, every fifth failed attempt
WaitLines(rc, brk) ==
    IF brk THEN <<LogLine("INFO", "API server is ready", 0)>>
    ELSE IF rc % 5 = 0 THEN <<LogLine("INFO", "Waiting for API server", rc)>>
    ELSE <<>>

\* the dictionary returned for a non-200 answer: the status code and
\* response.text
\* (variant: the body is left out of the dictionary)
PostErrorRetNoBody(r) ==
    Ret("error", "Bootstrap failed with status", r.code, NoBody, NoJson)
PostErrorRet(r) ==
    Ret("error", "Bootstrap failed with status", r.code, r.body, NoJson)

\* the dictionaries returned by "except requests.exceptions.Timeout" and by
\* "except requests.exceptions.RequestException"; Timeout is a
\* RequestException and its clause comes first
\* (variant: the RequestException clause alone, catching the timeout too)
PostRaisedRetOneClause(kind) ==
    Ret("error", "Bootstrap request failed", 0, NoBody, NoJson)
PostRaisedRet(kind) ==
    IF kind = "timeout"
    THEN Ret("error", "Bootstrap request timed out", 0, NoBody, NoJson)
    ELSE Ret("error", "Bootstrap request failed", 0, NoBody, NoJson)

\* The POST came back (or raised): what the try block around it decides
\* before the verification.  handler names the except clause that catches a
\* body that is not JSON: requests' JSONDecodeError is a RequestException in
\* some releases of the library and a plain ValueError in others.
\* (variant: the status code of the answer is not looked at)
AfterPostIgnoreStatus(r, handler) ==
    [next |-> "verify", ret |-> NoRet, result |-> Json(r.body),
     lines |-> SuccessLines(Json(r.body))]
AfterPost(r, handler) ==
    CASE r.kind = "timeout" ->
             [next |-> "done",
              ret |-> PostRaisedRet(r.kind),
              result |-> NoJson,
              lines |-> <<LogLine("ERROR", "Bootstrap request timed out", 0)>>]
      [] r.kind = "connerr" ->
             [next |-> "done",
              ret |-> PostRaisedRet(r.kind),
              result |-> NoJson,
              lines |-> <<LogLine("ERROR", "Bootstrap request failed", 0)>>]
      [] r.kind = "http" /\ r.code /= 200 ->
             [next |-> "done",
              ret |-> PostErrorRet(r),
              result |-> NoJson,
              lines |-> <<LogLine("ERROR", "Bootstrap failed with status", 0)>>]
      [] r.kind = "http" /\ r.code = 200 /\ ~Json(r.body).ok ->
             IF handler = "RequestException"
             THEN [next |-> "done",
                   ret |-> Ret("error", "Bootstrap request failed", 0, NoBody, NoJson),
                   result |-> NoJson,
                   lines |-> <<LogLine("ERROR", "Bootstrap request failed", 0)>>]
             ELSE [next |-> "done",
                   ret |-> Ret("error", "exception text", 0, NoBody, NoJson),
                   result |-> NoJson,
                   lines |-> <<LogLine("ERROR", "Error calling bootstrap endpoint", 0)>>]
      [] r.kind = "http" /\ r.code = 200 /\ Json(r.body).ok /\ ~Json(r.body).isDict ->
             \* result.get raises AttributeError: the outer except
             [next |-> "done",
              ret |-> Ret("error", "exception text", 0, NoBody, NoJson),
              result |-> NoJson,
              lines |-> <<LogLine("INFO", "Bootstrap completed successfully!", 0),
                          LogLine("ERROR", "Error calling bootstrap endpoint", 0)>>]
      [] OTHER ->
             [next |-> "verify", ret |-> NoRet, result |-> Json(r.body),
              lines |-> SuccessLines(Json(r.body))]

\* the return after the verification block: the verification outcome is
\* only logged
\* (variant: a verification that does not report all_systems_go is an error)
AfterVerifyStrict(result, v) ==
    IF v = "all_go"
    THEN Ret("success", "Bootstrap completed successfully", 0, NoBody, result)
    ELSE Ret("error", "verification failed", 0, NoBody, result)
AfterVerify(result, v) ==
    Ret("success", "Bootstrap completed successfully", 0, NoBody, result)

\* def call_bootstrap_endpoint(self): entry
CallBootstrap ==
    /\ bpc \in {"idle", "done"}
    /\ bpc' = "poll"
    /\ retry_count' = 0
    /\ gets' = 0
    /\ posts' = 0
    /\ verifies' = 0
    /\ readyAt' = 0
    /\ lastGet' = "none"
    /\ postResp' = NoResp
    /\ verifyResp' = "none"
    /\ bresult' = NoRet
    /\ blog' = <<LogLine("INFO", "Calling bootstrap endpoint", 0)>>
    /\ UNCHANGED svars
    /\ UNCHANGED pvars

\* one pass of the readiness loop, and the check after the loop when the
\* pass was the last
PollAttempt ==
    /\ bpc = "poll"
    /\ LoopContinues(retry_count)
    /\ \E outcome \in GetOutcomes :
         LET a == AfterGet(retry_count, outcome)
             left == a.brk \/ ~LoopContinues(a.rc)
         IN /\ gets' = gets + 1
            /\ lastGet' = outcome
            /\ readyAt' = IF outcome = "200" /\ readyAt = 0 THEN gets + 1 ELSE readyAt
            /\ retry_count' = a.rc
            /\ IF left /\ NotReady(a.rc)
               THEN /\ bpc' = "done"
                    /\ bresult' = NotReadyRet
                    /\ blog' = blog \o WaitLines(a.rc, a.brk)
               ELSE /\ bpc' = IF left THEN "post" ELSE "poll"
                    /\ bresult' = bresult
                    /\ blog' = blog \o WaitLines(a.rc, a.brk)
                               \o (IF left
                                   THEN <<LogLine("INFO", "Starting bootstrap process", 0)>>
                                   ELSE <<>>)
    /\ UNCHANGED <<posts, verifies, postResp, verifyResp>>
    /\ UNCHANGED svars
    /\ UNCHANGED pvars

\* requests.post(".../bootstrap") and the interpretation of its answer
Post ==
    /\ bpc = "post"
    /\ \E r \in PostOutcomes, handler \in {"RequestException", "Exception"} :
         LET a == AfterPost(r, handler)
         IN /\ posts' = posts + 1
            /\ postResp' = r
            /\ bpc' = a.next
            /\ bresult' = IF a.next = "done" THEN a.ret
                          ELSE Ret("none", "", 0, NoBody, a.result)
            /\ blog' = blog \o a.lines
    /\ UNCHANGED <<retry_count, gets, verifies, readyAt, lastGet, verifyResp>>
    /\ UNCHANGED svars
    /\ UNCHANGED pvars

\* time.sleep(3), the verification GET and the return
Verify ==
    /\ bpc = "verify"
    /\ \E v \in VerifyOutcomes :
         /\ verifies' = verifies + 1
         /\ verifyResp' = v
         /\ bresult' = AfterVerify(bresult.result, v)
         /\ blog' = Append(blog, VerifyLine(v))
    /\ bpc' = "done"
    /\ UNCHANGED <<retry_count, gets, posts, readyAt, lastGet, postResp>>
    /\ UNCHANGED svars
    /\ UNCHANGED pvars

BNext == CallBootstrap \/ PollAttempt \/ Post \/ Verify


(***************************************************************************)
(* Environment prober and provisioner                                      *)
(***************************************************************************)
\* required_packages, in the order the prober tries them
required_packages == <<"fastapi", "uvicorn", "pydantic", "requests">>

PackageSet == {required_packages[i] : i \in 1..Len(required_packages)}

\* What the prober looks at.  frozen: sys.frozen (bundled mode); venv: the
\* venv directory exists; python: its interpreter exists; missing: the
\* required packages whose import fails; fault: running the interpreter
\* raises something other than CalledProcessError; requirements: the
\* requirements.txt manifest exists.
Envs ==
    {e \in [frozen : BOOLEAN, venv : BOOLEAN, python : BOOLEAN,
            missing : SUBSET PackageSet, fault : BOOLEAN, requirements : BOOLEAN] :
        /\ (~e.venv => ~e.python)
        /\ (~e.python => (e.missing = PackageSet /\ ~e.fault))
        /\ (e.frozen => (~e.python /\ ~e.requirements))}

ProbeResult(status, missing) == [status |-> status, missing |-> missing]

\* def check_virtual_environment(self)
\* (variant: the interpreter is run without checking that it exists, and
\* the FileNotFoundError lands in the except clause)
check_virtual_environment_no_interpreter_check(e) ==
    IF e.frozen THEN ProbeResult("ready", <<>>)
    ELSE IF ~e.venv THEN ProbeResult("not_found", <<>>)
    ELSE IF ~e.python \/ e.fault THEN ProbeResult("error", <<>>)
    ELSE LET m == SelectSeq(required_packages, LAMBDA p : p \in e.missing)
         IN IF m /= <<>> THEN ProbeResult("incomplete", m)
            ELSE ProbeResult("ready", <<>>)
check_virtual_environment(e) ==
    IF e.frozen THEN ProbeResult("ready", <<>>)
    ELSE IF ~e.venv THEN ProbeResult("not_found", <<>>)
    ELSE IF ~e.python THEN ProbeResult("corrupted", <<>>)
    ELSE IF e.fault THEN ProbeResult("error", <<>>)
    ELSE LET m == SelectSeq(required_packages, LAMBDA p : p \in e.missing)
         IN IF m /= <<>> THEN ProbeResult("incomplete", m)
            ELSE ProbeResult("ready", <<>>)

\* what the two subprocesses of the provisioner can do: python -m venv,
\* and pip install -r requirements.txt with the packages it installs
ProvisionOutcomes ==
    [create : {"ok", "fail"}, pip : {"ok", "fail"}, installed : SUBSET PackageSet]

\* def setup_virtual_environment(self): the status it returns and the
\* environment it leaves
setup_virtual_environment(e, o) ==
    IF e.frozen THEN [status |-> "success", env |-> e]
    ELSE IF ~e.requirements THEN [status |-> "error", env |-> e]
    ELSE IF ~e.venv /\ o.create = "fail" THEN [status |-> "error", env |-> e]
    ELSE LET e1 == IF e.venv THEN e
                   ELSE [e EXCEPT !.venv = TRUE, !.python = TRUE,
                                  !.missing = PackageSet, !.fault = FALSE]
         IN IF ~e1.python \/ o.pip = "fail"
            THEN [status |-> "error", env |-> e1]
            ELSE [status |-> "success",
                  env |-> [e1 EXCEPT !.missing = e1.missing \ o.installed]]

\* a caller runs check_virtual_environment()
Probe ==
    /\ probeRes' = check_virtual_environment(env)
    /\ UNCHANGED <<golem, phist>>
    /\ UNCHANGED bvars
    /\ UNCHANGED svars

\* a caller runs setup_virtual_environment(); the last probe result is
\* forgotten, the environment having changed under it
Provision ==
    /\ \E o \in ProvisionOutcomes :
         env' = setup_virtual_environment(env, o).env
    /\ probeRes' = ProbeResult("none", <<>>)
    /\ UNCHANGED <<golem, phist>>
    /\ UNCHANGED bvars
    /\ UNCHANGED <<is_running, api_process, children, threads, mpc, trace,
                   startRet, stopInfo, proc>>

ProbeNext == Probe \/ Provision

(***************************************************************************)
(* Provider controller                                                     *)
(***************************************************************************)
\* The daemon as the control commands see it.  onPath: "golemsp" resolves
\* unqualified; atFallback: ~/.local/bin/golemsp exists; running: the
\* daemon runs, so that "golemsp status" prints "is running"; statusFails:
\* "golemsp status" exits non-zero; stopFails: "golemsp stop" exits
\* non-zero.
GolemEnvs ==
    [onPath : BOOLEAN, atFallback : BOOLEAN, running : BOOLEAN,
     statusFails : BOOLEAN, stopFails : BOOLEAN]

\* def is_golem_running(self): only CalledProcessError is caught, so the
\* FileNotFoundError of an unresolvable "golemsp" leaves the function
is_golem_running(g) ==
    [raised |-> ~g.onPath, value |-> g.onPath /\ ~g.statusFails /\ g.running]

\* the unqualified commands among cmds that found an executable to run
RanUnqualified(g, cmds) == IF g.onPath THEN cmds ELSE <<>>

\* def stop_golem_provider(self): the status returned, the control
\* commands attempted (calls), those that ran, and the daemon afterwards
\* (variant: no early return when the executable resolves nowhere)
stop_golem_provider_no_install_check(g) ==
    IF is_golem_running(g).raised
    THEN [status |-> "error", message |-> "exception text",
          calls |-> <<"--version", "status">>,
          ran |-> RanUnqualified(g, <<"--version", "status">>), env |-> g]
    ELSE [status |-> "success", message |-> "Golem provider not running",
          calls |-> <<"--version", "status">>,
          ran |-> RanUnqualified(g, <<"--version", "status">>), env |-> g]
stop_golem_provider(g) ==
    IF ~g.onPath /\ ~g.atFallback
    THEN [status |-> "success", message |-> "Golem not installed",
          calls |-> <<"--version">>,
          ran |-> RanUnqualified(g, <<"--version">>), env |-> g]
    ELSE IF is_golem_running(g).raised
    THEN [status |-> "error", message |-> "exception text",
          calls |-> <<"--version", "status">>,
          ran |-> RanUnqualified(g, <<"--version", "status">>), env |-> g]
    ELSE IF ~is_golem_running(g).value
    THEN [status |-> "success", message |-> "Golem provider not running",
          calls |-> <<"--version", "status">>,
          ran |-> RanUnqualified(g, <<"--version", "status">>), env |-> g]
    ELSE IF g.stopFails
    THEN [status |-> "error", message |-> "exception text",
          calls |-> <<"--version", "status", "stop">>,
          ran |-> <<"--version", "status", "stop">>, env |-> g]
    ELSE [status |-> "success", message |-> "Golem provider stopped",
          calls |-> <<"--version", "status", "stop">>,
          ran |-> <<"--version", "status", "stop">>,
          env |-> [g EXCEPT !.running = FALSE]]

\* what the launch of the daemon can do: bash cannot be started
\* (launchRaises), and whether the daemon is up after the settle delay
StartOutcomes == [launchRaises : BOOLEAN, up : BOOLEAN]

\* def start_golem_provider(self): the status returned, the commands run,
\* the number of launch commands among them, the answer of the re-check
\* after the launch, and the daemon afterwards
\* (variants: no "already running" guard; no re-check after the launch)
start_golem_provider_no_guard(g, o) ==
    LET g1 == [g EXCEPT !.running = o.up]
    IN IF is_golem_running(g).raised
       THEN [status |-> "error", message |-> "exception text",
             calls |-> <<"status">>, launched |-> 0, recheck |-> FALSE, env |-> g]
       ELSE IF is_golem_running(g1).value
       THEN [status |-> "success", message |-> "Golem provider started",
             calls |-> <<"status", "run", "status">>, launched |-> 1,
             recheck |-> TRUE, env |-> g1]
       ELSE [status |-> "error", message |-> "Failed to start Golem provider",
             calls |-> <<"status", "run", "status">>, launched |-> 1,
             recheck |-> FALSE, env |-> g1]
start_golem_provider_no_recheck(g, o) ==
    LET g1 == [g EXCEPT !.running = o.up]
    IN IF is_golem_running(g).raised
       THEN [status |-> "error", message |-> "exception text",
             calls |-> <<"status">>, launched |-> 0, recheck |-> FALSE, env |-> g]
       ELSE IF is_golem_running(g).value
       THEN [status |-> "success", message |-> "Golem provider already running",
             calls |-> <<"status">>, launched |-> 0, recheck |-> FALSE, env |-> g]
       ELSE [status |-> "success", message |-> "Golem provider started",
             calls |-> <<"status", "run">>, launched |-> 1,
             recheck |-> is_golem_running(g1).value, env |-> g1]
start_golem_provider(g, o) ==
    LET g1 == [g EXCEPT !.running = o.up]
    IN IF is_golem_running(g).raised
       THEN [status |-> "error", message |-> "exception text",
             calls |-> <<"status">>, launched |-> 0, recheck |-> FALSE, env |-> g]
       ELSE IF is_golem_running(g).value
       THEN [status |-> "success", message |-> "Golem provider already running",
             calls |-> <<"status">>, launched |-> 0, recheck |-> FALSE, env |-> g]
       ELSE IF o.launchRaises
       THEN [status |-> "error", message |-> "exception text",
             calls |-> <<"status">>, launched |-> 0, recheck |-> FALSE, env |-> g]
       ELSE IF is_golem_running(g1).value
       THEN [status |-> "success", message |-> "Golem provider started",
             calls |-> <<"status", "run", "status">>, launched |-> 1,
             recheck |-> TRUE, env |-> g1]
       ELSE [status |-> "error", message |-> "Failed to start Golem provider",
             calls |-> <<"status", "run", "status">>, launched |-> 1,
             recheck |-> FALSE, env |-> g1]

\* one entry of the history of provider operations: the operation, the
\* daemon it met, what isRunning() said on entry, and what the operation
\* returned and ran
HistEntry(op, g, r) ==
    [op |-> op, g |-> g,
     entryRunning |-> ~is_golem_running(g).raised /\ is_golem_running(g).value,
     status |-> r.status, calls |-> r.calls, ran |-> r.ran,
     launched |-> r.launched, recheck |-> r.recheck]

\* a caller runs start_golem_provider()
ProviderStart ==
    /\ Len(phist) < MaxOps
    /\ \E o \in StartOutcomes :
         LET r == start_golem_provider(golem, o)
         IN /\ golem' = r.env
            /\ phist' = Append(phist,
                  HistEntry("start", golem,
                            [status |-> r.status, calls |-> r.calls,
                             ran |-> r.calls, launched |-> r.launched,
                             recheck |-> r.recheck]))
    /\ UNCHANGED probeRes
    /\ UNCHANGED bvars
    /\ UNCHANGED svars

\* a caller runs stop_golem_provider()
ProviderStop ==
    /\ Len(phist) < MaxOps
    /\ LET r == stop_golem_provider(golem)
       IN /\ golem' = r.env
          /\ phist' = Append(phist,
                HistEntry("stop", golem,
                          [status |-> r.status, calls |-> r.calls,
                           ran |-> r.ran, launched |-> 0, recheck |-> FALSE]))
    /\ UNCHANGED probeRes
    /\ UNCHANGED bvars
    /\ UNCHANGED svars

\* a caller runs is_golem_running(): it returns True or False, or raises
ProviderIsRunning ==
    /\ Len(phist) < MaxOps
    /\ LET r == is_golem_running(golem)
       IN phist' = Append(phist,
             HistEntry("is_running", golem,
                       [status |-> IF r.raised THEN "raised"
                                   ELSE IF r.value THEN "true" ELSE "false",
                        calls |-> <<"status">>,
                        ran |-> RanUnqualified(golem, <<"status">>),
                        launched |-> 0, recheck |-> FALSE]))
    /\ UNCHANGED <<golem, probeRes>>
    /\ UNCHANGED bvars
    /\ UNCHANGED svars

\* the daemon dies, or is started, behind the supervisor's back
DaemonChanges ==
    /\ Len(phist) < MaxOps
    /\ golem' = [golem EXCEPT !.running = ~golem.running]
    /\ UNCHANGED <<phist, probeRes>>
    /\ UNCHANGED bvars
    /\ UNCHANGED svars

PNext == ProviderStart \/ ProviderStop \/ ProviderIsRunning \/ DaemonChanges

(***************************************************************************)
(* Process launcher                                                        *)
(***************************************************************************)
\* self.api_process = None
None == 0

\* what the launch itself can do once the environment is ready: start
\* (the child is spawned, or the server thread is started) or raise
\* (Popen fails, or "import main" / "import uvicorn" fails)
LaunchOutcomes == {"started", "raises"}

\* def start_api_server(self), up to the launch: "refuse" (probe not ready,
\* return False), "fail" (exception, return False), "thread" (bundled mode,
\* server thread started), "spawn" (script mode, child spawned)
\* (variant: the launch does not consult the prober)
LaunchNoProbe(e, o) ==
    IF o = "raises" THEN "fail"
    ELSE IF e.frozen THEN "thread"
    ELSE "spawn"
LaunchDecision(e, o) ==
    IF check_virtual_environment(e).status /= "ready" THEN "refuse"
    ELSE IF o = "raises" THEN "fail"
    ELSE IF e.frozen THEN "thread"
    ELSE "spawn"

\* what terminate(), wait(timeout=5) and kill() can do to a recorded child
ShutdownOutcomes ==
    {"exited", "timeout", "timeout_kill_raises", "terminate_raises", "wait_raises"}

\* stop_api_server(): "finally: self.api_process = None"
\* (variant: the handle is left as it was)
HandleAfterShutdownKept(h) == h
HandleAfterShutdown(h) == None

\* def stop_api_server(self): the handle it leaves, the calls it made on
\* the child, the state it leaves the child in ("same": no signal reached
\* it), whether wait(timeout=5) timed out and whether an exception left
\* the function
stop_api_server(h, o) ==
    IF h = None
    THEN [handle |-> None, calls |-> <<>>, child |-> "same", raised |-> FALSE,
          timedOut |-> FALSE]
    ELSE CASE o = "exited" ->
                  [handle |-> HandleAfterShutdown(h), calls |-> <<"terminate">>,
                   child |-> "terminated", raised |-> FALSE,
                   timedOut |-> FALSE]
           [] o = "timeout" ->
                  [handle |-> HandleAfterShutdown(h),
                   calls |-> <<"terminate", "kill">>,
                   child |-> "killed", raised |-> FALSE, timedOut |-> TRUE]
           [] o = "timeout_kill_raises" ->
                  \* kill() raises inside the except clause: finally clears
                  \* the handle and the exception leaves the function
                  [handle |-> HandleAfterShutdown(h),
                   calls |-> <<"terminate", "kill">>,
                   child |-> "terminated", raised |-> TRUE, timedOut |-> TRUE]
           [] o = "terminate_raises" ->
                  [handle |-> HandleAfterShutdown(h), calls |-> <<"terminate">>,
                   child |-> "same", raised |-> FALSE, timedOut |-> FALSE]
           [] OTHER ->
                  [handle |-> HandleAfterShutdown(h), calls |-> <<"terminate">>,
                   child |-> "terminated", raised |-> FALSE,
                   timedOut |-> FALSE]

\* the child table after stop_api_server acted on handle h
ChildrenAfter(ch, h, r) ==
    IF h = None \/ r.child = "same" THEN ch
    ELSE [ch EXCEPT ![h] = r.child]


(***************************************************************************)
(* Supervisor: start(), stop(), signal_handler                             *)
(***************************************************************************)
NoStop ==
    [via |-> "none", at |-> "none", provider |-> "none", calls |-> <<>>,
     trace |-> <<>>, handleBefore |-> None, raised |-> FALSE,
     api |-> stop_api_server(None, "exited")]

\* def stop(self): the whole body.  The provider stop returns a dictionary
\* also when it fails, and whatever stop_api_server lets out is caught by
\* the except clause of stop(), so nothing leaves stop().
\* (variants: stop() returns early on a provider error; stop() without
\* its try/except)
stop_skip_api_on_provider_error(h, g, o) ==
    LET p == stop_golem_provider(g)
        a == stop_api_server(h, o)
    IN IF p.status = "error"
       THEN [is_running |-> FALSE, provider |-> p.status, handle |-> h,
             child |-> "same", calls |-> <<>>,
             trace |-> <<"stop_golem_provider">>, raised |-> FALSE,
             api |-> stop_api_server(None, o)]
       ELSE [is_running |-> FALSE, provider |-> p.status, handle |-> a.handle,
             child |-> a.child, calls |-> a.calls,
             trace |-> <<"stop_golem_provider", "stop_api_server">>,
             raised |-> FALSE, api |-> a]
stop_uncaught(h, g, o) ==
    LET p == stop_golem_provider(g)
        a == stop_api_server(h, o)
    IN [is_running |-> FALSE, provider |-> p.status, handle |-> a.handle,
        child |-> a.child, calls |-> a.calls,
        trace |-> <<"stop_golem_provider", "stop_api_server">>,
        raised |-> a.raised, api |-> a]
stop(h, g, o) ==
    LET p == stop_golem_provider(g)
        a == stop_api_server(h, o)
    IN [is_running |-> FALSE, provider |-> p.status, handle |-> a.handle,
        child |-> a.child, calls |-> a.calls,
        trace |-> <<"stop_golem_provider">> \o <<"stop_api_server">>,
        raised |-> FALSE, api |-> a]

\* the state of the supervisor's children after a stop() with result r
\* on handle h
AfterStop(via, at, h, r) ==
    [via |-> via, at |-> at, provider |-> r.provider, calls |-> r.calls,
     trace |-> r.trace, handleBefore |-> h, raised |-> r.raised,
     api |-> r.api]

\* start(), first statements: the log line and self.is_running = True
StartEntry ==
    /\ proc = "running"
    /\ mpc = "idle"
    /\ Len(children) + threads < MaxSpawn
    /\ mpc' = "s_env"
    /\ is_running' = TRUE
    /\ trace' = <<>>
    /\ startRet' = "none"
    /\ stopInfo' = NoStop
    /\ UNCHANGED <<env, api_process, children, threads, proc>>
    /\ UNCHANGED bvars
    /\ UNCHANGED pvars

\* start(): "if not venv_dir.exists(): setup_virtual_environment()".  Only
\* the existence of the directory is looked at.  exc: venv_dir.exists()
\* raises an OSError, caught by the except clause of start().
NeedsSetup(e) == ~e.venv

StartEnsureEnv ==
    /\ proc = "running"
    /\ mpc = "s_env"
    /\ \E o \in ProvisionOutcomes, exc \in BOOLEAN :
         IF exc
         THEN /\ mpc' = "idle"
              /\ startRet' = "false"
              /\ UNCHANGED <<env, trace>>
         ELSE IF NeedsSetup(env)
         THEN LET r == setup_virtual_environment(env, o)
              IN /\ env' = r.env
                 /\ trace' = Append(trace, IF r.status = "success"
                                            THEN "provision:success"
                                            ELSE "provision:error")
                 /\ IF r.status /= "success"
                    THEN mpc' = "idle" /\ startRet' = "false"
                    ELSE mpc' = "s_launch" /\ startRet' = startRet
         ELSE /\ mpc' = "s_launch"
              /\ UNCHANGED <<env, trace, startRet>>
    /\ UNCHANGED <<is_running, api_process, children, threads, stopInfo, proc>>
    /\ UNCHANGED bvars
    /\ UNCHANGED pvars

\* start() calls start_api_server(): the probe, and the launch up to the
\* moment the child exists (Popen has forked) or the thread is started
LaunchTrace(d) ==
    CASE d = "spawn" -> <<"launch">>
      [] d = "thread" -> <<"launch", "launch:true">>
      [] OTHER -> <<"launch", "launch:false">>

StartLaunch ==
    /\ proc = "running"
    /\ mpc = "s_launch"
    /\ \E o \in LaunchOutcomes :
         LET d == LaunchDecision(env, o)
         IN /\ trace' = trace \o LaunchTrace(d)
            /\ CASE d = "spawn" ->
                      /\ children' = Append(children, "alive")
                      /\ mpc' = "s_record"
                      /\ UNCHANGED <<threads, startRet>>
                 [] d = "thread" ->
                      /\ threads' = threads + 1
                      /\ mpc' = "s_ready"
                      /\ UNCHANGED <<children, startRet>>
                 [] OTHER ->
                      /\ mpc' = "idle"
                      /\ startRet' = "false"
                      /\ UNCHANGED <<children, threads>>
    /\ UNCHANGED <<env, is_running, api_process, stopInfo, proc>>
    /\ UNCHANGED bvars
    /\ UNCHANGED pvars

\* start_api_server(): "self.api_process = subprocess.Popen(...)" stores
\* the handle of the child just spawned, overwriting what was recorded
\* (variant: a handle already recorded is kept)
RecordedHandleKeepFirst(old, new) == IF old = None THEN new ELSE old
RecordedHandle(old, new) == new

StartRecord ==
    /\ proc = "running"
    /\ mpc = "s_record"
    /\ api_process' = RecordedHandle(api_process, Len(children))
    /\ trace' = trace \o <<"record", "launch:true">>
    /\ mpc' = "s_ready"
    /\ UNCHANGED <<env, is_running, children, threads, startRet, stopInfo, proc>>
    /\ UNCHANGED bvars
    /\ UNCHANGED pvars

\* start(), after start_api_server() returned True: the two sleeps, the
\* endpoint lines, return True.  These are the operations start() invokes
\* between the launch and its return.
AfterLaunchCalls == <<>>

StartReturn ==
    /\ proc = "running"
    /\ mpc = "s_ready"
    /\ trace' = trace \o AfterLaunchCalls
    /\ startRet' = "true"
    /\ mpc' = "idle"
    /\ UNCHANGED <<env, is_running, api_process, children, threads, stopInfo, proc>>
    /\ UNCHANGED bvars
    /\ UNCHANGED pvars

\* a client calls stop()
Stop ==
    /\ proc = "running"
    /\ mpc = "idle"
    /\ \E g \in GolemEnvs, o \in ShutdownOutcomes :
         LET r == stop(api_process, g, o)
         IN /\ is_running' = r.is_running
            /\ api_process' = r.handle
            /\ children' = ChildrenAfter(children, api_process, r)
            /\ stopInfo' = AfterStop("call", mpc, api_process, r)
    /\ UNCHANGED <<env, threads, mpc, trace, startRet, proc>>
    /\ UNCHANGED bvars
    /\ UNCHANGED pvars

\* signal_handler: "sys.exit(0)", the exit status the handler asks for
\* (variant: the handler asks for a failure status)
signal_handler_exit_failure == "exit1"
signal_handler_exit == "exit0"

\* a SystemExit raised inside main()'s try statement waits for the finally
\* clause; Exited is the status the process ends with once main() is left
Pending(code) == IF code = "exit0" THEN "exiting0" ELSE "exiting1"

Exited(p) ==
    CASE p = "exiting0" -> "exit0"
      [] p = "exiting1" -> "exit1"
      [] OTHER -> "exit0"

\* signal_handler: SIGINT or SIGTERM arrives wherever the control thread
\* is; the handler runs stop() on the registered service and sys.exit(0).
\* SystemExit is no Exception, so no except clause of the service catches
\* it; raised in main()'s loop it runs main()'s finally clause first.
Signal ==
    /\ proc = "running"
    /\ \E g \in GolemEnvs, o \in ShutdownOutcomes :
         LET r == stop(api_process, g, o)
         IN /\ is_running' = r.is_running
            /\ api_process' = r.handle
            /\ children' = ChildrenAfter(children, api_process, r)
            /\ stopInfo' = AfterStop("signal", mpc, api_process, r)
    /\ IF mpc = "m_loop"
       THEN proc' = Pending(signal_handler_exit) /\ mpc' = "m_finally"
       ELSE proc' = signal_handler_exit /\ mpc' = mpc
    /\ UNCHANGED <<env, threads, trace, startRet>>
    /\ UNCHANGED bvars
    /\ UNCHANGED pvars

\* main(): "if service.start():", the one start() of the process
MainStart ==
    /\ startRet = "none"
    /\ StartEntry

\* main(): the branch on what start() returned: into the try statement, or
\* the error line and sys.exit(1)
MainBranch ==
    /\ proc = "running"
    /\ mpc = "idle"
    /\ startRet /= "none"
    /\ IF startRet = "true"
       THEN mpc' = "m_loop" /\ proc' = proc
       ELSE mpc' = "m_done" /\ proc' = "exit1"
    /\ UNCHANGED <<env, is_running, api_process, children, threads, trace,
                   startRet, stopInfo>>
    /\ UNCHANGED bvars
    /\ UNCHANGED pvars

\* main(): "while service.is_running: time.sleep(1)"
MainLoop ==
    /\ proc = "running"
    /\ mpc = "m_loop"
    /\ mpc' = IF is_running THEN "m_loop" ELSE "m_finally"
    /\ UNCHANGED <<env, is_running, api_process, children, threads, trace,
                   startRet, stopInfo, proc>>
    /\ UNCHANGED bvars
    /\ UNCHANGED pvars

\* main(): "finally: service.stop()", then main() is left
MainFinally ==
    /\ proc \in {"running", "exiting0", "exiting1"}
    /\ mpc = "m_finally"
    /\ \E g \in GolemEnvs, o \in ShutdownOutcomes :
         LET r == stop(api_process, g, o)
         IN /\ is_running' = r.is_running
            /\ api_process' = r.handle
            /\ children' = ChildrenAfter(children, api_process, r)
            /\ stopInfo' = AfterStop("finally", mpc, api_process, r)
    /\ proc' = Exited(proc)
    /\ mpc' = "m_done"
    /\ UNCHANGED <<env, threads, trace, startRet>>
    /\ UNCHANGED bvars
    /\ UNCHANGED pvars

(***************************************************************************)
(* Specifications                                                          *)
(***************************************************************************)
BInit ==
    /\ bpc = "idle"
    /\ retry_count = 0
    /\ gets = 0
    /\ posts = 0
    /\ verifies = 0
    /\ readyAt = 0
    /\ lastGet = "none"
    /\ postResp = NoResp
    /\ verifyResp = "none"
    /\ bresult = NoRet
    /\ blog = <<>>

\* AutomationService.__init__, in any environment
SInit ==
    /\ env \in Envs
    /\ is_running = FALSE
    /\ api_process = None
    /\ children = <<>>
    /\ threads = 0
    /\ mpc = "idle"
    /\ trace = <<>>
    /\ startRet = "none"
    /\ stopInfo = NoStop
    /\ proc = "running"

\* the provider and the prober at rest, for the specifications that do
\* not exercise them
IdleGolem ==
    [onPath |-> TRUE, atFallback |-> FALSE, running |-> FALSE,
     statusFails |-> FALSE, stopFails |-> FALSE]

NoProbe == ProbeResult("none", <<>>)

PInit ==
    /\ golem = IdleGolem
    /\ phist = <<>>
    /\ probeRes = NoProbe

Init == BInit /\ SInit /\ PInit

\* the environment the bootstrap specification runs in: a ready one
ReadyEnv ==
    [frozen |-> FALSE, venv |-> TRUE, python |-> TRUE, missing |-> {},
     fault |-> FALSE, requirements |-> TRUE]

InitBootstrap ==
    /\ BInit
    /\ env = ReadyEnv
    /\ is_running = FALSE
    /\ api_process = None
    /\ children = <<>>
    /\ threads = 0
    /\ mpc = "idle"
    /\ trace = <<>>
    /\ startRet = "none"
    /\ stopInfo = NoStop
    /\ proc = "running"
    /\ PInit

\* the supervisor not started, in a ready environment
SIdle ==
    /\ env = ReadyEnv
    /\ is_running = FALSE
    /\ api_process = None
    /\ children = <<>>
    /\ threads = 0
    /\ mpc = "idle"
    /\ trace = <<>>
    /\ startRet = "none"
    /\ stopInfo = NoStop
    /\ proc = "running"

InitProvider ==
    /\ BInit
    /\ SIdle
    /\ golem \in GolemEnvs
    /\ phist = <<>>
    /\ probeRes = NoProbe

Next ==
    \/ StartEntry
    \/ StartEnsureEnv
    \/ StartLaunch
    \/ StartRecord
    \/ StartReturn
    \/ Stop
    \/ Signal

Spec == Init /\ [][Next]_vars

SpecBootstrap == InitBootstrap /\ [][BNext]_vars

SpecProvider == InitProvider /\ [][PNext]_vars

\* main(): one start(), the loop, the finally clause; a signal at any point
MainNext ==
    \/ MainStart
    \/ StartEnsureEnv
    \/ StartLaunch
    \/ StartRecord
    \/ StartReturn
    \/ MainBranch
    \/ MainLoop
    \/ MainFinally
    \/ Signal

SpecMain == Init /\ [][MainNext]_vars

InitProbe == BInit /\ SInit /\ PInit

SpecProbe == InitProbe /\ [][ProbeNext]_vars


(***************************************************************************)
(* Properties of call_bootstrap_endpoint, checked under SpecBootstrap      *)
(***************************************************************************)
\* The POST answered 200 with a body that parsed into a bootstrap result:
\* a JSON object.  A 200 body that is valid JSON of another shape (a list,
\* null, a string) is not one: result.get raises on it.
Post200Parsed ==
    postResp.kind = "http" /\ postResp.code = 200 /\ postResp.body.kind = "object"

\* C1: call_bootstrap_endpoint returns Success exactly when the bootstrap
\* POST answered 200 with a body that parsed into a bootstrap result,
\* whatever the statuses of its steps and whatever the verification did;
\* every other course of the call returns Error.
C1_SuccessIffPost200Parsed ==
    bpc = "done" =>
        /\ bresult.status \in {"success", "error"}
        /\ (bresult.status = "success") <=> Post200Parsed

\* C1 witness: Success returned although a step failed and the
\* verification did not report all systems go
C1_Witness ==
    /\ bpc = "done"
    /\ bresult.status = "success"
    /\ \E i \in DOMAIN postResp.body.steps : postResp.body.steps[i] = "failure"
    /\ verifyResp = "not_all_go"

\* C2: readiness polling issues at most 30 GETs; when 30 were issued and
\* none answered 200 the call has returned the "did not become ready in
\* time" Error, and without a 200 neither the POST nor the verification GET
\* is issued.
C2_PollBoundedThenError ==
    /\ gets <= 30
    /\ (readyAt = 0 /\ gets = 30) => (bpc = "done" /\ bresult = NotReadyRet)
    /\ readyAt = 0 => (posts = 0 /\ verifies = 0 /\ bpc \in {"idle", "poll", "done"})
    /\ (readyAt = 0 /\ bpc = "done") => (gets = 30 /\ bresult.status = "error")

\* C2 witness: thirty failed attempts, the last a timeout, and the Error
C2_Witness ==
    /\ gets = 30
    /\ readyAt = 0
    /\ lastGet = "timeout"
    /\ bpc = "done"
    /\ bresult.message = "API server did not become ready in time"

\* C3: when the first 200 comes on attempt k (1..30), exactly k GETs are
\* issued, the earlier failures are not fatal, and the call goes on to
\* exactly one bootstrap POST: it stands before the POST, or has issued one.
C3_FirstReadyStopsPolling ==
    readyAt /= 0 =>
        /\ readyAt \in 1..30
        /\ gets = readyAt
        /\ bpc \in {"post", "verify", "done"}
        /\ bresult /= NotReadyRet
        /\ (bpc = "post" => (posts = 0 /\ ENABLED Post))
        /\ (bpc \in {"verify", "done"} => posts = 1)

\* C3 witness: ready on the last attempt of the budget, after twenty-nine
\* failed ones, and the POST issued
C3_Witness ==
    /\ readyAt = 30
    /\ gets = 30
    /\ posts = 1
    /\ retry_count = 29

\* C4: the verification GET is issued at most once and only after a POST
\* that answered 200; whatever it does, the call returns Success with the
\* parsed bootstrap response in the result.
C4_VerifyNeverChangesOutcome ==
    /\ verifies <= 1
    /\ verifies = 1 =>
         /\ posts = 1
         /\ Post200Parsed
         /\ bpc = "done"
         /\ bresult.status = "success"
         /\ bresult.result.ok
         /\ bresult.result.bootstrap_steps = postResp.body.steps
    /\ bpc = "verify" => (posts = 1 /\ Post200Parsed)

\* C4 witness: the verification body was malformed, Success all the same
C4_Witness ==
    /\ verifies = 1
    /\ verifyResp = "malformed"
    /\ bresult.status = "success"
    /\ Len(bresult.result.bootstrap_steps) = MaxSteps

\* C5: a POST answered with a status other than 200 gives Error carrying
\* that status code and the raw body; the POST is not repeated and no
\* verification GET is issued.
C5_Non200IsErrorWithCodeAndBody ==
    (postResp.kind = "http" /\ postResp.code /= 200) =>
        /\ bpc = "done"
        /\ bresult.status = "error"
        /\ bresult.code = postResp.code
        /\ bresult.response = postResp.body
        /\ posts = 1
        /\ verifies = 0

\* C5 witness: HTTP 500 with a body that is not JSON
C5_Witness ==
    /\ postResp.kind = "http"
    /\ postResp.code = 500
    /\ postResp.body.kind = "not_json"
    /\ bresult.code = 500
    /\ bpc = "done"


(***************************************************************************)
(* Properties of the supervisor, checked under Spec                        *)
(***************************************************************************)
Occurrences(seq, x) == Cardinality({i \in DOMAIN seq : seq[i] = x})

Has(seq, x) == \E i \in DOMAIN seq : seq[i] = x

Before(seq, x, y) ==
    \E i, j \in DOMAIN seq : i < j /\ seq[i] = x /\ seq[j] = y

\* C6: a start() whose launch succeeded has run the bootstrap orchestrator
\* exactly once, after the launch and before returning, and returns true.
C6_StartRunsBootstrapOnce ==
    Has(trace, "launch:true") =>
        /\ (mpc = "idle" => startRet = "true")
        /\ (startRet = "true" =>
              /\ Occurrences(trace, "call_bootstrap_endpoint") = 1
              /\ Before(trace, "launch:true", "call_bootstrap_endpoint"))

\* C7: in start(), an environment the probe does not find Ready is
\* provisioned before any launch is attempted; a failed provisioning makes
\* start() return false without a launch; start() returns true only when
\* the launch returned true.
C7_ProvisionBeforeLaunch ==
    /\ (Has(trace, "launch") /\ ~Has(trace, "provision:success"))
          => check_virtual_environment(env).status = "ready"
    /\ Has(trace, "provision:error")
          => (~Has(trace, "launch") /\ mpc = "idle" /\ startRet = "false")
    /\ startRet = "true" => Has(trace, "launch:true")

LiveChildren == {i \in DOMAIN children : children[i] = "alive"}

\* C8: at most one API server child spawned by the supervisor is alive
\* (spawned and neither terminated nor killed) at any time.
C8_AtMostOneLiveChild == Cardinality(LiveChildren) <= 1

\* C9: stop() invokes the provider stop first and the API server shutdown
\* second, lets no exception out, shuts the API server down also when the
\* provider stop returned an error, and leaves is_running false and the
\* recorded handle None.
C9_StopOrderAndFinalState ==
    stopInfo.via /= "none" =>
        /\ stopInfo.trace = <<"stop_golem_provider", "stop_api_server">>
        /\ ~stopInfo.raised
        /\ (stopInfo.handleBefore /= None => stopInfo.calls /= <<>>)
        /\ is_running = FALSE
        /\ api_process = None

\* C9 witness: the provider stop failed and the recorded child was still
\* terminated and then killed
C9_Witness ==
    /\ stopInfo.via = "call"
    /\ stopInfo.provider = "error"
    /\ stopInfo.handleBefore /= None
    /\ stopInfo.calls = <<"terminate", "kill">>
    /\ children[stopInfo.handleBefore] = "killed"

StartPositions == {"s_env", "s_launch", "s_record", "s_ready"}

\* C10: a stop() run by the signal handler while start() is in progress,
\* wherever start() stands and also while the handle is still None, lets
\* no exception out and leaves is_running false and the handle None.
C10_SignalStopDuringStart ==
    (stopInfo.via = "signal" /\ stopInfo.at \in StartPositions) =>
        /\ ~stopInfo.raised
        /\ (stopInfo.handleBefore = None => stopInfo.calls = <<>>)
        /\ is_running = FALSE
        /\ api_process = None
        /\ proc = "exit0"

\* C10 witness: the signal came after the child was spawned and before its
\* handle was recorded
C10_Witness ==
    /\ stopInfo.via = "signal"
    /\ stopInfo.at = "s_record"
    /\ stopInfo.handleBefore = None
    /\ Len(children) = 1
    /\ is_running = FALSE


(***************************************************************************)
(* Properties of the provider controller, checked under SpecProvider       *)
(***************************************************************************)
\* C15: a start_golem_provider() that finds isRunning() true returns
\* Success without running the launch command; so two calls in succession,
\* with a daemon that came up after the first launch and stayed up, both
\* return Success and run the launch command once.
C15_StartIsIdempotent ==
    /\ \A i \in DOMAIN phist :
         (phist[i].op = "start" /\ phist[i].entryRunning) =>
             (phist[i].status = "success" /\ phist[i].launched = 0
              /\ ~Has(phist[i].calls, "run"))
    /\ \A i \in DOMAIN phist :
         (/\ i + 1 \in DOMAIN phist
          /\ phist[i].op = "start" /\ phist[i].launched = 1 /\ phist[i].recheck
          /\ phist[i + 1].op = "start" /\ phist[i + 1].g.running) =>
             /\ phist[i].status = "success"
             /\ phist[i + 1].status = "success"
             /\ phist[i].launched + phist[i + 1].launched = 1

\* C15 witness: two starts in succession, the first launching the daemon,
\* the second finding it running
C15_Witness ==
    /\ Len(phist) >= 2
    /\ phist[1].op = "start" /\ phist[1].launched = 1 /\ phist[1].status = "success"
    /\ phist[2].op = "start" /\ phist[2].entryRunning /\ phist[2].launched = 0
    /\ phist[2].status = "success"

\* C16: after the launch command start_golem_provider() checks
\* isRunning() again: a launch whose re-check is false gives Error, Success
\* after a launch comes only with a true re-check, and a call runs the
\* launch command at most once.
C16_StartRechecksAfterLaunch ==
    \A i \in DOMAIN phist :
        phist[i].op = "start" =>
            /\ Occurrences(phist[i].calls, "run") <= 1
            /\ phist[i].launched = Occurrences(phist[i].calls, "run")
            /\ (phist[i].launched = 1 =>
                  /\ (phist[i].status = "success") <=> phist[i].recheck
                  /\ ~phist[i].recheck => phist[i].status = "error"
                  /\ phist[i].calls = <<"status", "run", "status">>)

\* C16 witness: the launch command ran, the daemon was not up after the
\* settle delay, and the call returned Error
C16_Witness ==
    \E i \in DOMAIN phist :
        /\ phist[i].op = "start"
        /\ phist[i].launched = 1
        /\ ~phist[i].recheck
        /\ phist[i].status = "error"

\* C17: stop_golem_provider() with a control executable that resolves,
\* unqualified or only at the fallback path, and a daemon that is not
\* running returns Success and never invokes the stop subcommand.
C17_StopWhenNotRunning ==
    \A i \in DOMAIN phist :
        (/\ phist[i].op = "stop"
         /\ (phist[i].g.onPath \/ phist[i].g.atFallback)
         /\ ~phist[i].g.running) =>
            (phist[i].status = "success" /\ ~Has(phist[i].calls, "stop"))

\* C18: stop_golem_provider() with a control executable that resolves
\* nowhere returns Success and runs no subprocess of the control
\* executable: no status query and no stop subcommand.
C18_StopWhenNotInstalled ==
    \A i \in DOMAIN phist :
        (/\ phist[i].op = "stop"
         /\ ~phist[i].g.onPath
         /\ ~phist[i].g.atFallback) =>
            /\ phist[i].status = "success"
            /\ phist[i].ran = <<>>
            /\ ~Has(phist[i].calls, "status")
            /\ ~Has(phist[i].calls, "stop")

\* C18 witness: a stop with the executable absent, the daemon state
\* notwithstanding
C18_Witness ==
    \E i \in DOMAIN phist :
        /\ phist[i].op = "stop"
        /\ ~phist[i].g.onPath
        /\ ~phist[i].g.atFallback
        /\ phist[i].status = "success"
        /\ phist[i].calls = <<"--version">>

\* C19: is_golem_running() never raises: a non-zero exit of the status
\* command and an executable that is not found both give false, and true
\* comes only with a successful exit that prints "is running".
C19_IsRunningNeverRaises ==
    \A i \in DOMAIN phist :
        phist[i].op = "is_running" =>
            /\ phist[i].status \in {"true", "false"}
            /\ ((~phist[i].g.onPath \/ phist[i].g.statusFails)
                   => phist[i].status = "false")
            /\ (phist[i].status = "true"
                   => (phist[i].g.onPath /\ ~phist[i].g.statusFails
                       /\ phist[i].g.running))


(***************************************************************************)
(* Properties of the supervisor's flag and of the launcher, under Spec     *)
(***************************************************************************)
\* C11: is_running is running only after a successful start: it is false
\* at construction, true after a start() only if that start() returned
\* true, and false after every start() that returned false.
C11_RunningOnlyAfterSuccessfulStart ==
    /\ (mpc = "idle" /\ startRet = "none") => ~is_running
    /\ (mpc = "idle" /\ is_running) => startRet = "true"
    /\ (mpc = "idle" /\ startRet = "false") => ~is_running

\* C13: stop_api_server() with a recorded child sends terminate first,
\* sends kill only if the wait on the child timed out, lets no exception
\* of terminate, wait or kill out to its caller and leaves the handle
\* None in every outcome; with no recorded child it sends no signal.
C13_ShutdownSequence ==
    stopInfo.via /= "none" =>
        /\ stopInfo.handleBefore = None => stopInfo.api.calls = <<>>
        /\ stopInfo.handleBefore /= None =>
              /\ stopInfo.api.calls /= <<>>
              /\ stopInfo.api.calls[1] = "terminate"
              /\ Has(stopInfo.api.calls, "kill") <=> stopInfo.api.timedOut
        /\ stopInfo.api.handle = None
        /\ ~stopInfo.api.raised

\* C14: start_api_server() never proceeds against a non-ready
\* environment: when the probe says NotFound, Corrupted, Incomplete or
\* Error it returns false, spawns no child, starts no server thread and
\* leaves the recorded handle as it was.
C14_NoLaunchOnNonReadyEnv ==
    [][(/\ mpc = "s_launch"
        /\ mpc' /= "s_launch"
        /\ check_virtual_environment(env).status
              \in {"not_found", "corrupted", "incomplete", "error"})
          => /\ startRet' = "false"
             /\ trace' = trace \o <<"launch", "launch:false">>
             /\ children' = children
             /\ threads' = threads
             /\ api_process' = api_process]_vars

\* C14 witness: start() reached the launch on an incomplete environment
\* and the launch was refused
C14_Witness ==
    /\ mpc = "idle"
    /\ startRet = "false"
    /\ Len(trace) >= 2
    /\ trace[Len(trace)] = "launch:false"
    /\ check_virtual_environment(env).status = "incomplete"
    /\ children = <<>>

\* C23: start_api_server() never raises to its caller: every call ends by
\* returning.  A failed spawn returns false with no handle newly recorded
\* (and nothing spawned or started); in script mode true is returned only
\* after the handle of the child just spawned has been recorded.
C23_LaunchReturnsNeverRaises ==
    [][/\ (mpc = "s_launch" /\ mpc' /= "s_launch") =>
             \/ /\ mpc' = "idle"
                /\ startRet' = "false"
                /\ trace' = trace \o <<"launch", "launch:false">>
                /\ api_process' = api_process
                /\ children' = children
                /\ threads' = threads
             \/ /\ mpc' = "s_ready"
                /\ env.frozen
                /\ trace' = trace \o <<"launch", "launch:true">>
                /\ api_process' = api_process
                /\ threads' = threads + 1
             \/ /\ mpc' = "s_record"
                /\ ~env.frozen
                /\ trace' = trace \o <<"launch">>
                /\ api_process' = api_process
                /\ children' = Append(children, "alive")
       /\ (mpc = "s_record" /\ mpc' /= "s_record") =>
             /\ mpc' = "s_ready"
             /\ api_process' = Len(children)
             /\ children[api_process'] = "alive"
             /\ trace' = trace \o <<"record", "launch:true">>]_vars

\* C23 witness: in script mode with a ready environment the spawn failed
\* and start_api_server() returned false, the handle recorded by an earlier
\* start() left as it was
C23_Witness ==
    /\ mpc = "idle"
    /\ startRet = "false"
    /\ ~env.frozen
    /\ check_virtual_environment(env).status = "ready"
    /\ Len(trace) >= 2
    /\ trace[Len(trace)] = "launch:false"
    /\ api_process /= None
    /\ Len(children) = 1

(***************************************************************************)
(* Properties of main() and the signal handler, under SpecMain             *)
(***************************************************************************)
SignalDelivered == stopInfo.via = "signal" \/ proc \in {"exiting0", "exiting1"}
                       \/ stopInfo.via = "finally"

\* C12: a signal delivered at any point of main() runs stop() to
\* completion and the process then exits with code 0, at once or through
\* main()'s finally clause; the process exits non-zero only when start()
\* returned false, never after a successful launch.
C12_SignalStopsThenExitsZero ==
    /\ SignalDelivered =>
          /\ proc \in {"exiting0", "exit0"}
          /\ stopInfo.trace = <<"stop_golem_provider", "stop_api_server">>
          /\ ~stopInfo.raised
          /\ ~is_running
          /\ api_process = None
    /\ proc = "exiting0" => (mpc = "m_finally" /\ ENABLED MainFinally)
    /\ proc \in {"exit1", "exiting1"} =>
          /\ startRet = "false"
          /\ ~Has(trace, "launch:true")
          /\ stopInfo.via = "none"

\* C12 witness: the service started, a signal arrived in main()'s loop,
\* the handler and then the finally clause ran stop(), exit code 0
C12_Witness ==
    /\ proc = "exit0"
    /\ startRet = "true"
    /\ Has(trace, "launch:true")
    /\ stopInfo.via = "finally"
    /\ stopInfo.handleBefore = None

\* C24: at every exit of the process (after a signal, after the main
\* loop, after a failed start) every API server child it spawned has been
\* sent terminate or kill: no child is left alive, in particular none
\* spawned just before a signal that found no handle recorded yet.
C24_NoChildAliveAtExit ==
    proc \in {"exit0", "exit1"} =>
        \A c \in DOMAIN children : children[c] /= "alive"

\* C25: stop() is idempotent: the stop() of main()'s finally clause,
\* coming after the completed stop() of the signal handler, sends neither
\* terminate nor kill to the API server, does not raise, and leaves
\* is_running false and the handle None.
C25_SecondStopDoesNothing ==
    stopInfo.via = "finally" =>
        /\ stopInfo.handleBefore = None
        /\ stopInfo.api.calls = <<>>
        /\ stopInfo.calls = <<>>
        /\ stopInfo.api.child = "same"
        /\ ~stopInfo.api.raised
        /\ ~stopInfo.raised
        /\ ~is_running
        /\ api_process = None

\* C25 witness: the handler's stop() terminated or killed the recorded
\* child, then the finally clause ran stop() again and the process ended
C25_Witness ==
    /\ proc = "exit0"
    /\ stopInfo.via = "finally"
    /\ stopInfo.api.calls = <<>>
    /\ Len(children) = 1
    /\ children[1] \in {"terminated", "killed"}

(***************************************************************************)
(* Properties of the prober, checked under SpecProbe                       *)
(***************************************************************************)
ProbeStates == {"ready", "not_found", "corrupted", "incomplete", "error"}

Listed(seq) == {seq[i] : i \in DOMAIN seq}

\* seq lists its elements in the order of required_packages, once each
InRequiredOrder(seq) ==
    \A i, j \in DOMAIN seq :
        i < j => \E a, b \in DOMAIN required_packages :
                    a < b /\ required_packages[a] = seq[i]
                          /\ required_packages[b] = seq[j]

\* C20: check_virtual_environment() returns one of the five states for
\* every environment: bundled mode Ready; no runtime directory NotFound;
\* directory without interpreter Corrupted; failing imports Incomplete with
\* the failing packages in the required-package order; all imports fine
\* Ready; an unexpected exception Error.
C20_ProbeClassifiesEveryEnvironment ==
    probeRes.status /= "none" =>
        /\ probeRes.status \in ProbeStates
        /\ env.frozen => probeRes.status = "ready"
        /\ (~env.frozen /\ ~env.venv) => probeRes.status = "not_found"
        /\ (~env.frozen /\ env.venv /\ ~env.python)
              => probeRes.status = "corrupted"
        /\ (~env.frozen /\ env.python /\ env.fault)
              => probeRes.status = "error"
        /\ (~env.frozen /\ env.python /\ ~env.fault /\ env.missing /= {})
              => /\ probeRes.status = "incomplete"
                 /\ Listed(probeRes.missing) = env.missing
                 /\ InRequiredOrder(probeRes.missing)
        /\ (~env.frozen /\ env.python /\ ~env.fault /\ env.missing = {})
              => probeRes.status = "ready"
        /\ probeRes.status /= "incomplete" => probeRes.missing = <<>>

\* C20 witness: two packages fail to import and are listed in the
\* required order, uvicorn before requests
C20_Witness ==
    /\ probeRes.status = "incomplete"
    /\ probeRes.missing = <<"uvicorn", "requests">>

(***************************************************************************)
(* Properties of the bootstrap log and of the POST failures, checked       *)
(* under SpecBootstrap                                                     *)
(***************************************************************************)
\* the positions of blog that hold a line of the for loop over
\* bootstrap_steps
StepLineIdx == {k \in DOMAIN blog : blog[k].msg \in {"step ok", "step failed"}}

\* C21: on a 200 bootstrap response one line is logged per entry of
\* bootstrap_steps, in the order of the response and right after the
\* summary lines; an entry whose status is not "success" is logged at
\* ERROR level and the entries after it are logged all the same.
C21_StepLinesInOrder ==
    LET steps == postResp.body.steps
    IN (/\ bpc \in {"verify", "done"}
        /\ Post200Parsed
        /\ postResp.body.kind = "object") =>
           \E base \in DOMAIN blog :
               /\ base >= 4
               /\ blog[base - 3].msg = "Bootstrap completed successfully!"
               /\ blog[base - 2].msg = "Bootstrap Summary:"
               /\ blog[base - 1].msg = "Steps completed"
               /\ blog[base].msg = "Completion time"
               /\ StepLineIdx = {base + i : i \in 1..Len(steps)}
               /\ \A i \in 1..Len(steps) :
                     /\ blog[base + i].step = i
                     /\ blog[base + i].level =
                           (IF steps[i] = "success" THEN "INFO" ELSE "ERROR")

\* C21 witness: a 200 response whose first entry failed and whose second
\* succeeded; both are in the log, the first at ERROR level
C21_Witness ==
    /\ bpc = "done"
    /\ Post200Parsed
    /\ postResp.body.steps = <<"failure", "success">>
    /\ \E k \in DOMAIN blog :
          /\ k + 1 \in DOMAIN blog
          /\ blog[k] = LogLine("ERROR", "step failed", 1)
          /\ blog[k + 1] = LogLine("INFO", "step ok", 2)

\* C22: a timeout of the bootstrap POST and a connection failure of it
\* both make call_bootstrap_endpoint return status error, with messages
\* that tell the two apart, and in neither case is the POST sent again or
\* the verification GET issued.
C22_TimeoutAndConnErrDistinct ==
    (bpc = "done" /\ postResp.kind \in {"timeout", "connerr"}) =>
        /\ bresult.status = "error"
        /\ posts = 1
        /\ verifies = 0
        /\ postResp.kind = "timeout" =>
              /\ bresult.message = "Bootstrap request timed out"
              /\ bresult.message /= "Bootstrap request failed"
        /\ postResp.kind = "connerr" =>
              /\ bresult.message = "Bootstrap request failed"
              /\ bresult.message /= "Bootstrap request timed out"

\* C22 witness: the POST timed out and the call returned its own error
C22_Witness ==
    /\ bpc = "done"
    /\ postResp.kind = "timeout"
    /\ posts = 1
    /\ bresult.status = "error"
    /\ bresult.message = "Bootstrap request timed out"

====
